---------------------------- MODULE Spec2Model ----------------------------
(***************************************************************************)
(* A model of hotballofmoney.py: compute_cumulative_returns, returns_df    *)
(* and hot_ball_of_money.                                                  *)
(*                                                                         *)
(* Floating-point cells are modelled as extended rationals [n, d]:         *)
(*   d > 0  : the number n/d in lowest terms,                              *)
(*   d = 0  : n = 0 is NaN, n = 1 is +inf, n = -1 is -inf,                 *)
(* with the IEEE-754 rules for the special values (0/0 = NaN, x/0 = inf,   *)
(* 0*inf = NaN, inf-inf = NaN).  Rounding is not modelled: arithmetic on   *)
(* finite values is exact.                                                 *)
(***************************************************************************)
EXTENDS Integers, Sequences, FiniteSets, TLC

VARIABLES
    pc,               \* position of the call under study
    asset_price_df,   \* the caller's price table / slice (a DataFrame)
    col_name,         \* the label handed to compute_cumulative_returns
    ret,              \* what the last call returned (or the error it raised)
    prev_ret,         \* what the call before the last returned
    price_df0,        \* history: the price table as first handed in
    asset_returns,    \* the caller's return table (a DataFrame)
    sector_mapping,   \* the caller's asset -> sector dict
    returns0,         \* history: the return table as first handed in
    mapping0,         \* history: the sector mapping as first handed in
    sectors,          \* list(set(sector_mapping.values())) as the call enumerated it
    figure            \* the figure built by hot_ball_of_money

vars == <<pc, asset_price_df, col_name, ret, prev_ret, price_df0,
          asset_returns, sector_mapping, returns0, mapping0, sectors, figure>>

-----------------------------------------------------------------------------
(* Bounds of the model *)

MaxSliceRows == 3
MaxTableRows == 3
MaxAssets == 3

-----------------------------------------------------------------------------
(* float64 cells *)

NaN == [n |-> 0, d |-> 0]

Abs(x) == IF x < 0 THEN -x ELSE x
Sign(x) == IF x < 0 THEN -1 ELSE IF x > 0 THEN 1 ELSE 0

RECURSIVE Gcd(_, _)
Gcd(a, b) == IF b = 0 THEN a ELSE Gcd(b, a % b)

\* the finite number p/q (q # 0) in lowest terms
Frac(p, q) ==
    LET g == Gcd(Abs(p), Abs(q))
    IN  [n |-> Sign(q) * (p \div g), d |-> Sign(q) * (q \div g)]

Num(x) == [n |-> x, d |-> 1]

IsNaN(a) == a.d = 0 /\ a.n = 0
IsInf(a) == a.d = 0 /\ a.n # 0
IsZero(a) == a.d > 0 /\ a.n = 0

\* a / b
FDiv(a, b) ==
    IF IsNaN(a) \/ IsNaN(b) THEN NaN
    ELSE IF IsInf(a) THEN (IF IsInf(b) THEN NaN
                           ELSE [n |-> a.n * (IF b.n < 0 THEN -1 ELSE 1), d |-> 0])
    ELSE IF IsInf(b) THEN Num(0)
    ELSE IF IsZero(b) THEN (IF IsZero(a) THEN NaN ELSE [n |-> Sign(a.n), d |-> 0])
    ELSE Frac(a.n * b.d, a.d * b.n)

\* a * b
FMul(a, b) ==
    IF IsNaN(a) \/ IsNaN(b) THEN NaN
    ELSE IF IsInf(a) \/ IsInf(b)
         THEN (IF IsZero(a) \/ IsZero(b) THEN NaN
               ELSE [n |-> Sign(a.n) * Sign(b.n), d |-> 0])
    ELSE Frac(a.n * b.n, a.d * b.d)

\* a + b
FAdd(a, b) ==
    IF IsNaN(a) \/ IsNaN(b) THEN NaN
    ELSE IF IsInf(a) THEN (IF IsInf(b) /\ a.n # b.n THEN NaN ELSE a)
    ELSE IF IsInf(b) THEN b
    ELSE Frac(a.n * b.d + b.n * a.d, a.d * b.d)

FNeg(a) == [n |-> -a.n, d |-> a.d]

\* a - b
FSub(a, b) == FAdd(a, FNeg(b))

\* a > 0 (False for NaN)
FGtZero(a) == a.n > 0

\* a < b for two non-NaN cells
FLess(a, b) ==
    IF IsInf(a) \/ IsInf(b)
    THEN (IF IsInf(a) /\ IsInf(b) THEN a.n < b.n
          ELSE IF IsInf(a) THEN a.n < 0 ELSE b.n > 0)
    ELSE a.n * b.d < b.n * a.d

-----------------------------------------------------------------------------
(* DataFrames: index (row labels, in order), columns (column labels, in    *)
(* order) and cell[i][c], the cell of the i-th row in column c.            *)

Range(s) == {s[i] : i \in 1..Len(s)}

Max(S) == CHOOSE x \in S : \A y \in S : y <= x

\* no value (Python's None)
None == [status |-> "none"]

NRows(df) == Len(df.index)

\* DataFrame.ffill(): each missing cell takes the last known cell above it
RECURSIVE FfillCell(_, _, _)
FfillCell(df, i, a) ==
    IF ~IsNaN(df.cell[i][a]) \/ i = 1 THEN df.cell[i][a]
    ELSE FfillCell(df, i - 1, a)

ffill(df) ==
    [df EXCEPT !.cell = [i \in 1..NRows(df) |->
                            [a \in Range(df.columns) |-> FfillCell(df, i, a)]]]

\* a faulty variant of pct_change: the first row is filled with 0 instead of missing
pct_change_fill0(df) ==
    [df EXCEPT !.cell = [i \in 1..NRows(df) |->
        [a \in Range(df.columns) |->
            IF i = 1 THEN Num(0)
            ELSE FSub(FDiv(df.cell[i][a], df.cell[i - 1][a]), Num(1))]]]

\* DataFrame.pct_change(): cell / cell of the row above - 1; first row NaN
pct_change(df) ==
    [df EXCEPT !.cell = [i \in 1..NRows(df) |->
        [a \in Range(df.columns) |->
            IF i = 1 THEN NaN
            ELSE FSub(FDiv(df.cell[i][a], df.cell[i - 1][a]), Num(1))]]]

\* 1 + DataFrame
AddOne(df) ==
    [df EXCEPT !.cell = [i \in 1..NRows(df) |->
        [a \in Range(df.columns) |-> FAdd(Num(1), df.cell[i][a])]]]

\* DataFrame.cumprod() with skipna=True: missing cells count as 1 in the
\* running product and stay missing in the output
RECURSIVE RunningProd(_, _, _)
RunningProd(df, i, a) ==
    IF i = 0 THEN Num(1)
    ELSE FMul(RunningProd(df, i - 1, a),
              IF IsNaN(df.cell[i][a]) THEN Num(1) ELSE df.cell[i][a])

\* a faulty variant of cumprod: the product restarts at every row (a plain prod of
\* the last period only)
cumprod_last_only(df) ==
    [df EXCEPT !.cell = [i \in 1..NRows(df) |->
        [a \in Range(df.columns) |-> df.cell[i][a]]]]

cumprod(df) ==
    [df EXCEPT !.cell = [i \in 1..NRows(df) |->
        [a \in Range(df.columns) |->
            IF IsNaN(df.cell[i][a]) THEN NaN ELSE RunningProd(df, i, a)]]]

\* (df.iloc[-1] - 1) * 100
LastRowPercent(df) ==
    [a \in Range(df.columns) |->
        FMul(FSub(df.cell[NRows(df)][a], Num(1)), Num(100))]

\* a faulty variant of the pipeline of line 19 that leaves out .ffill()
cumulative_return_no_ffill(df) ==
    LastRowPercent(cumprod(AddOne(pct_change(df))))

\* line 19: ((1 + df.ffill().pct_change()).cumprod().iloc[-1] - 1) * 100
cumulative_return(df) ==
    LastRowPercent(cumprod(AddOne(pct_change(ffill(df)))))

\* compute_cumulative_returns(asset_price_df, col_name): .iloc[-1] raises
\* IndexError on a frame without rows; the result is a one-column frame
\* indexed by asset
compute_cumulative_returns(df, name) ==
    IF NRows(df) = 0
    THEN [status |-> "IndexError"]
    ELSE [status |-> "ok",
          index |-> df.columns,
          columns |-> <<name>>,
          cell |-> LET r == cumulative_return(df)
                   IN  [k \in 1..Len(df.columns) |->
                          [c \in {name} |-> r[df.columns[k]]]]]

-----------------------------------------------------------------------------
(* Dates.  A Timestamp is a calendar day [y, m, d]; timedelta arithmetic    *)
(* goes through the day number (proleptic Gregorian ordinal, day 1 =        *)
(* 0001-01-01) and back.                                                    *)

IsLeap(y) == (y % 4 = 0) /\ ((y % 100 # 0) \/ (y % 400 = 0))

DaysInMonth(y, m) ==
    IF m = 2 THEN (IF IsLeap(y) THEN 29 ELSE 28)
    ELSE IF m \in {4, 6, 9, 11} THEN 30 ELSE 31

RECURSIVE DaysBeforeMonth(_, _)
DaysBeforeMonth(y, m) ==
    IF m = 1 THEN 0 ELSE DaysBeforeMonth(y, m - 1) + DaysInMonth(y, m - 1)

DaysBeforeYear(y) ==
    (y - 1) * 365 + ((y - 1) \div 4) - ((y - 1) \div 100) + ((y - 1) \div 400)

ymd2ord(t) == DaysBeforeYear(t.y) + DaysBeforeMonth(t.y, t.m) + t.d

\* the month and day of the n-th day (n >= 0) of year y
RECURSIVE MonthDay(_, _, _)
MonthDay(y, m, n) ==
    IF n < DaysInMonth(y, m) THEN [y |-> y, m |-> m, d |-> n + 1]
    ELSE MonthDay(y, m + 1, n - DaysInMonth(y, m))

ord2ymd(ord) ==
    LET n0   == ord - 1
        n400 == n0 \div 146097
        r400 == n0 % 146097
        n100 == r400 \div 36524
        r100 == r400 % 36524
        n4   == r100 \div 1461
        r4   == r100 % 1461
        n1   == r4 \div 365
        r1   == r4 % 365
        year == n400 * 400 + 1 + n100 * 100 + n4 * 4 + n1
    IN  IF n1 = 4 \/ n100 = 4
        THEN [y |-> year - 1, m |-> 12, d |-> 31]
        ELSE MonthDay(year, 1, r1)

\* a faulty variant of the subtraction: the window is one day short
TimestampMinusDaysShort(t, days) == ord2ymd(ymd2ord(t) - days + 1)

\* end - timedelta(days)
TimestampMinusDays(t, days) == ord2ymd(ymd2ord(t) - days)

Pad2(k) == IF k < 10 THEN "0" \o ToString(k) ELSE ToString(k)

Pad4(k) ==
    IF k < 10 THEN "000" \o ToString(k)
    ELSE IF k < 100 THEN "00" \o ToString(k)
    ELSE IF k < 1000 THEN "0" \o ToString(k)
    ELSE ToString(k)

\* t.strftime('%Y-%m-%d')
strftime(t) == Pad4(t.y) \o "-" \o Pad2(t.m) \o "-" \o Pad2(t.d)

DigitVal(c) == CHOOSE k \in 0..9 : ToString(k) = c

RECURSIVE ParseInt(_)
ParseInt(s) ==
    IF Len(s) = 0 THEN 0
    ELSE 10 * ParseInt(SubSeq(s, 1, Len(s) - 1)) + DigitVal(SubSeq(s, Len(s), Len(s)))

\* the day a 'YYYY-MM-DD' slice bound names
ParseDate(s) ==
    [y |-> ParseInt(SubSeq(s, 1, 4)),
     m |-> ParseInt(SubSeq(s, 6, 7)),
     d |-> ParseInt(SubSeq(s, 9, 10))]

\* the positions of the rows of df whose date lies in [lo, hi], in order
RECURSIVE RowsBetween(_, _, _, _)
RowsBetween(df, i, lo, hi) ==
    IF i > NRows(df) THEN << >>
    ELSE (IF lo <= ymd2ord(df.index[i]) /\ ymd2ord(df.index[i]) <= hi
          THEN <<i>> ELSE << >>) \o RowsBetween(df, i + 1, lo, hi)

\* df.loc[start:stop] with two day strings on an ascending DatetimeIndex:
\* the rows dated from the start day through the stop day, both included
loc(df, start, stop) ==
    LET keep == RowsBetween(df, 1, ymd2ord(ParseDate(start)), ymd2ord(ParseDate(stop)))
    IN  [index   |-> [k \in 1..Len(keep) |-> df.index[keep[k]]],
         columns |-> df.columns,
         cell    |-> [k \in 1..Len(keep) |-> df.cell[keep[k]]]]

\* one-column frames that share their index, side by side
ConcatColumns(frames) ==
    [status  |-> "ok",
     index   |-> IF Len(frames) = 0 THEN << >> ELSE frames[1].index,
     columns |-> [j \in 1..Len(frames) |-> frames[j].columns[1]],
     cell    |-> [k \in 1..(IF Len(frames) = 0 THEN 0 ELSE Len(frames[1].index)) |->
                    [c \in {frames[j].columns[1] : j \in 1..Len(frames)} |->
                        LET j == CHOOSE j \in 1..Len(frames) : frames[j].columns[1] = c
                        IN  frames[j].cell[k][c]]]]

HasValue(f) == \E k \in 1..Len(f.index) : ~IsNaN(f.cell[k][f.columns[1]])

\* a faulty variant of concat: columns without any value are dropped
concat_dropna(frames) == ConcatColumns(SelectSeq(frames, HasValue))

\* pd.concat(frames, axis=1): an outer join on the index, which the four
\* frames share (the assets of the price table)
concat(frames) == ConcatColumns(frames)

\* the look-back windows of returns_df, in the order of lines 35-46
WindowNames == <<"7-day", "1-month", "3-month", "6-month">>
WindowDays == <<7, 30, 90, 180>>

\* the start-day string of the j-th window
window_start(end, j) == strftime(TimestampMinusDays(end, WindowDays[j]))

\* f'<name> Return {start} - {end_date}'
window_label(j, start, end_date) ==
    WindowNames[j] \o " Return " \o start \o " - " \o end_date

\* a faulty variant of ArgAfterReturns: ffill(inplace=True) on the caller's table
ArgAfterReturnsInplace(df) == ffill(df)

\* the caller's price table after returns_df(df): every step of lines 19 and
\* 39-46 (.loc, .ffill, .pct_change, .cumprod) builds a new frame
ArgAfterReturns(df) == df

\* returns_df(asset_prices_df): index[-1] raises IndexError on an empty table
returns_df(df) ==
    IF NRows(df) = 0 THEN [status |-> "IndexError"]
    ELSE
    LET end == df.index[NRows(df)]
        end_date == strftime(end)
        one(j) == compute_cumulative_returns(
                      loc(df, window_start(end, j), end_date),
                      window_label(j, window_start(end, j), end_date))
        frames == [j \in 1..Len(WindowDays) |-> one(j)]
    IN  IF \E j \in 1..Len(frames) : frames[j].status # "ok"
        THEN [status |-> "IndexError"]
        ELSE concat(frames)

-----------------------------------------------------------------------------
(* hot_ball_of_money.  A sector cell of the return table is a sector name, *)
(* or MissingSector where Index.map found no entry for the asset.           *)

\* the float NaN in a column of sector names; no sector name equals it
MissingSector == "<NaN>"

\* s.replace(old, new) for a one-character old
RECURSIVE Replace(_, _, _)
Replace(s, old, new) ==
    IF Len(s) = 0 THEN s
    ELSE (IF SubSeq(s, 1, 1) = old THEN new ELSE SubSeq(s, 1, 1))
         \o Replace(SubSeq(s, 2, Len(s)), old, new)

\* the pieces of s from position i on, tok being the piece read so far
RECURSIVE SplitFrom(_, _, _)
SplitFrom(s, i, tok) ==
    IF i > Len(s) THEN <<tok>>
    ELSE IF SubSeq(s, i, i) = " " THEN <<tok>> \o SplitFrom(s, i + 1, "")
    ELSE SplitFrom(s, i + 1, tok \o SubSeq(s, i, i))

\* s.split(' ')
Split(s) == SplitFrom(s, 1, "")

\* the orders in which a set can be enumerated
Orders(S) ==
    {p \in [1..Cardinality(S) -> S] : \A i, j \in 1..Cardinality(S) : p[i] = p[j] => i = j}

MappingValues(mapping) == {mapping[a] : a \in DOMAIN mapping}

\* lines 63-65: the i-th listed sector gets the i-th of len(sectors) colors
\* sampled from the Spectral palette
color_mapping(sector_list) ==
    [s \in Range(sector_list) |->
        [cmap |-> "Spectral", N |-> Len(sector_list),
         i |-> (CHOOSE i \in 1..Len(sector_list) : sector_list[i] = s) - 1]]

\* line 67: asset_returns['sector'] = asset_returns.index.map(sector_mapping),
\* on the caller's frame; an asset without an entry maps to NaN
with_sector(df, mapping) ==
    [index   |-> df.index,
     columns |-> IF "sector" \in Range(df.columns) THEN df.columns
                 ELSE Append(df.columns, "sector"),
     cell    |-> [k \in 1..NRows(df) |->
                    [c \in Range(df.columns) \cup {"sector"} |->
                        IF c = "sector"
                        THEN (IF df.index[k] \in DOMAIN mapping
                              THEN mapping[df.index[k]] ELSE MissingSector)
                        ELSE df.cell[k][c]]]]

KeyError == [status |-> "KeyError"]

\* a faulty variant of color_of: a lookup with a default, color_mapping.get(s, ...)
color_of_default(cmapping, s) ==
    IF s \in DOMAIN cmapping THEN cmapping[s]
    ELSE [cmap |-> "Spectral", N |-> Cardinality(DOMAIN cmapping), i |-> 0]

\* color_mapping[s] of line 68: KeyError when s is no key
color_of(cmapping, s) ==
    IF s \in DOMAIN cmapping THEN cmapping[s] ELSE KeyError

\* line 68: [color_mapping[i] for i in asset_returns['sector']]
color_list(df, cmapping) ==
    [k \in 1..NRows(df) |-> color_of(cmapping, df.cell[k]["sector"])]

\* lines 71-80: one bar chart per column before the last, 'sector' skipped;
\* every pass sets the title of the figure and adds the legend again
top_charts(df, colors, sector_list, cmapping) ==
    LET cols == SelectSeq(SubSeq(df.columns, 1, Len(df.columns) - 1),
                          LAMBDA c : c # "sector")
        pos(c) == CHOOSE i \in 1..Len(df.columns) : df.columns[i] = c
    IN  [j \in 1..Len(cols) |->
            [subplot |-> 240 + pos(cols[j]),
             title   |-> cols[j],
             ylabel  |-> "Total Return (%)",
             bars    |-> [k \in 1..NRows(df) |->
                            [label |-> df.index[k], height |-> df.cell[k][cols[j]],
                             color |-> colors[k]]],
             suptitle |-> "Hot Ball of Money Monitor",
             legend  |-> [labels |-> sector_list,
                          handles |-> [i \in 1..Len(sector_list) |-> cmapping[sector_list[i]]]]]]

\* the sum and the number of the defined cells among rows ks of column c
RECURSIVE SumDefined(_, _, _)
SumDefined(df, ks, c) ==
    IF ks = {} THEN [sum |-> Num(0), count |-> 0]
    ELSE LET k == CHOOSE k \in ks : TRUE
             rest == SumDefined(df, ks \ {k}, c)
         IN  IF IsNaN(df.cell[k][c]) THEN rest
             ELSE [sum |-> FAdd(rest.sum, df.cell[k][c]), count |-> rest.count + 1]

\* a faulty variant of mean: one missing cell makes the mean missing (skipna=False)
mean_keepna(df, ks, c) ==
    IF \E k \in ks : IsNaN(df.cell[k][c]) THEN NaN
    ELSE FDiv(SumDefined(df, ks, c).sum, Num(SumDefined(df, ks, c).count))

\* GroupBy.mean() of one group and column: the mean of the defined cells,
\* NaN when there is none
mean(df, ks, c) ==
    LET sd == SumDefined(df, ks, c)
    IN  FDiv(sd.sum, Num(sd.count))

\* Series.unique(): the values in order of first occurrence
RECURSIVE Unique(_)
Unique(seq) ==
    IF Len(seq) = 0 THEN << >>
    ELSE LET front == Unique(SubSeq(seq, 1, Len(seq) - 1))
             x == seq[Len(seq)]
         IN  IF x \in Range(front) THEN front ELSE Append(front, x)

\* lines 81-83: the mean of every window column per sector, the sectors in
\* the order of their first asset, spaces in their names turned to line
\* breaks
average_sector_returns(df) ==
    LET sector_col == [k \in 1..NRows(df) |-> df.cell[k]["sector"]]
        order == Unique(sector_col)
        cols == SelectSeq(df.columns, LAMBDA c : c # "sector")
    IN  [index   |-> [r \in 1..Len(order) |-> Replace(order[r], " ", "\n")],
         columns |-> cols,
         cell    |-> [r \in 1..Len(order) |->
                        [c \in Range(cols) |->
                            mean(df, {k \in 1..NRows(df) : sector_col[k] = order[r]}, c)]]]

\* line 87: the rows that Series.sort_values() can leave in the last place.
\* Missing values are put last, in their original order; the default sort
\* is not stable, so any of several equal largest values may end last.
last_of_sort(avg, c) ==
    LET missing == {r \in 1..NRows(avg) : IsNaN(avg.cell[r][c])}
        known == (1..NRows(avg)) \ missing
    IN  IF missing # {} THEN {Max(missing)}
        ELSE {r \in known : \A q \in known : ~FLess(avg.cell[r][c], avg.cell[q][c])}

\* lines 86-90: the colors of the bars of one window
bar_colors(avg, c, best) ==
    [r \in 1..NRows(avg) |->
        IF avg.index[r] = avg.index[best] THEN "#D1B000"
        ELSE IF FGtZero(avg.cell[r][c]) THEN "g" ELSE "r"]

\* lines 84-95: one bar chart of sector averages per window; best[j] is the
\* row that ended last in the sort of window j
bottom_charts(avg, best) ==
    [j \in 1..Len(avg.columns) |->
        LET c == avg.columns[j]
            split_col == Split(c)
        IN  [subplot |-> 240 + j + 4,
             title   |-> split_col[1] \o " Average Sector " \o split_col[2],
             ylabel  |-> "Total Return (%)",
             bars    |-> [r \in 1..NRows(avg) |->
                            [label |-> avg.index[r], height |-> avg.cell[r][c],
                             color |-> bar_colors(avg, c, best[j])[r]]]]]

\* the outcomes the sorts of the first j windows can have together
RECURSIVE SortOutcomes(_, _)
SortOutcomes(avg, j) ==
    IF j = 0 THEN {<< >>}
    ELSE {Append(b, r) : b \in SortOutcomes(avg, j - 1),
                         r \in last_of_sort(avg, avg.columns[j])}

\* whether line 68 raises: some sector cell is no key of color_mapping
raises_at_line_68(df, mapping) ==
    LET sector_list == CHOOSE o \in Orders(MappingValues(mapping)) : TRUE
        colors == color_list(with_sector(df, mapping), color_mapping(sector_list))
    IN  \E k \in 1..NRows(df) : colors[k] = KeyError

\* the outcomes of the sorts of a call; none is reached when line 68 raises
sort_outcomes(df, mapping) ==
    IF raises_at_line_68(df, mapping) THEN {<< >>}
    ELSE LET avg == average_sector_returns(with_sector(df, mapping))
         IN  SortOutcomes(avg, Len(avg.columns))

\* the frame the caller holds after the call: line 67 assigns the column on
\* the frame passed in, before anything can raise
caller_frame_after(df, mapping) == with_sector(df, mapping)

\* hot_ball_of_money(asset_returns, sector_mapping), given the order in
\* which the set of sectors was listed and the outcome of each sort; the
\* figure is created (line 69) only after line 68
hot_ball_of_money(df, mapping, sector_list, best) ==
    LET cmapping == color_mapping(sector_list)
        after == with_sector(df, mapping)
        colors == color_list(after, cmapping)
    IN  IF \E k \in 1..NRows(df) : colors[k] = KeyError
        THEN [status |-> "KeyError", figure |-> None]
        ELSE LET avg == average_sector_returns(after)
             IN  [status |-> "ok",
                  figure |-> [status |-> "saved",
                              figsize |-> <<30, 15>>,
                              top |-> top_charts(after, colors, sector_list, cmapping),
                              bottom |-> bottom_charts(avg, best),
                              file |-> "hotballofmoney.png",
                              dpi |-> 300]]

-----------------------------------------------------------------------------
(* Inputs *)

\* the asset columns of the price tables
AssetColumns == <<"X", "Y">>

\* the prices of a slice handed to compute_cumulative_returns
PriceValues == {NaN, Num(0), Num(100), Num(110), Num(121)}

\* the rows of a slice handed to compute_cumulative_returns
SliceRows ==
    {r \in [Range(AssetColumns) -> PriceValues] : r["Y"] \in {NaN, Num(110)}}

\* the rows of a table handed to returns_df
TableRows ==
    {[X |-> Num(100), Y |-> Num(110)], [X |-> Num(110), Y |-> NaN],
     [X |-> NaN, Y |-> Num(100)], [X |-> NaN, Y |-> NaN]}

Labels == {"7-day Return 2024-02-23 - 2024-03-01", "r"}

Day(y, m, d) == [y |-> y, m |-> m, d |-> d]

\* as-of dates: around the end of February in leap, common and century
\* years, and around the turn of a year
AsOfDates == {Day(2024, 3, 1), Day(2023, 3, 1), Day(2100, 3, 1), Day(2000, 3, 6),
              Day(2024, 1, 5), Day(2024, 8, 28)}

\* how many days before the as-of date the earlier rows lie
Offsets == {6, 7, 31, 181}

\* the members of a set of numbers, largest first
RECURSIVE Descending(_)
Descending(S) ==
    IF S = {} THEN << >>
    ELSE LET x == CHOOSE x \in S : \A y \in S : y <= x
         IN  <<x>> \o Descending(S \ {x})

\* the ascending dates lying offs (and 0) days before end
DatesBefore(end, offs) ==
    LET o == Descending(offs) \o <<0>>
    IN  [i \in 1..Len(o) |-> TimestampMinusDays(end, o[i])]

PriceFrame(dates, cells) ==
    [index |-> dates, columns |-> AssetColumns, cell |-> cells]

EmptyFrame == PriceFrame(<< >>, << >>)

Unused ==
    /\ asset_returns = None
    /\ sector_mapping = None
    /\ returns0 = None
    /\ mapping0 = None
    /\ sectors = None
    /\ figure = None

-----------------------------------------------------------------------------
(* compute_cumulative_returns called on a slice *)

InitReturn ==
    /\ pc = "ready"
    /\ \E n \in 0..MaxSliceRows :
         \E cells \in [1..n -> SliceRows] :
            asset_price_df =
                PriceFrame([i \in 1..n |-> TimestampMinusDays(Day(2024, 3, 1), n - i)], cells)
    /\ col_name \in Labels
    /\ price_df0 = asset_price_df
    /\ ret = None
    /\ prev_ret = None
    /\ Unused

CallComputeCumulativeReturns ==
    /\ pc = "ready"
    /\ ret' = compute_cumulative_returns(asset_price_df, col_name)
    /\ pc' = IF ret'.status = "ok" THEN "returned" ELSE "raised"
    /\ asset_price_df' = ArgAfterReturns(asset_price_df)
    /\ UNCHANGED <<col_name, prev_ret, price_df0, asset_returns, sector_mapping,
                   returns0, mapping0, sectors, figure>>

NextReturn == CallComputeCumulativeReturns

SpecReturn == InitReturn /\ [][NextReturn]_vars

-----------------------------------------------------------------------------
(* returns_df called twice in succession on a price table *)

InitAgg ==
    /\ pc = "start"
    /\ \/ asset_price_df = EmptyFrame
       \/ \E end \in AsOfDates :
            \E offs \in {o \in SUBSET Offsets : Cardinality(o) < MaxTableRows} :
              \E cells \in [1..(Cardinality(offs) + 1) -> TableRows] :
                 asset_price_df = PriceFrame(DatesBefore(end, offs), cells)
    /\ col_name = "none"
    /\ price_df0 = asset_price_df
    /\ ret = None
    /\ prev_ret = None
    /\ Unused

CallReturnsDf ==
    /\ pc = "start"
    /\ ret' = returns_df(asset_price_df)
    /\ pc' = IF ret'.status = "ok" THEN "called1" ELSE "raised"
    /\ asset_price_df' = ArgAfterReturns(asset_price_df)
    /\ UNCHANGED <<col_name, prev_ret, price_df0, asset_returns, sector_mapping,
                   returns0, mapping0, sectors, figure>>

CallReturnsDfAgain ==
    /\ pc = "called1"
    /\ prev_ret' = ret
    /\ ret' = returns_df(asset_price_df)
    /\ pc' = IF ret'.status = "ok" THEN "called2" ELSE "raised"
    /\ asset_price_df' = ArgAfterReturns(asset_price_df)
    /\ UNCHANGED <<col_name, price_df0, asset_returns, sector_mapping,
                   returns0, mapping0, sectors, figure>>

NextAgg == CallReturnsDf \/ CallReturnsDfAgain

SpecAgg == InitAgg /\ [][NextAgg]_vars

-----------------------------------------------------------------------------
(* hot_ball_of_money called on a return table and a sector mapping *)

\* the assets a return table can list, in order
ReturnAssets == <<"X", "Y", "Z", "W", "V">>

\* the sector names, in the order in which the assets first use them: the
\* k-th asset belongs to one of the first k sectors
SectorNames == <<"A", "B", "C D">>

SectorChoices(a) ==
    LET k == CHOOSE k \in 1..Len(ReturnAssets) : ReturnAssets[k] = a
    IN  {SectorNames[i] : i \in 1..(IF k < Len(SectorNames) THEN k ELSE Len(SectorNames))}

\* the labels returns_df gives the columns for the as-of date 2024-03-01
ReturnColumns ==
    << window_label(1, window_start(Day(2024, 3, 1), 1), strftime(Day(2024, 3, 1))),
       window_label(2, window_start(Day(2024, 3, 1), 2), strftime(Day(2024, 3, 1))),
       window_label(3, window_start(Day(2024, 3, 1), 3), strftime(Day(2024, 3, 1))),
       window_label(4, window_start(Day(2024, 3, 1), 4), strftime(Day(2024, 3, 1))) >>

\* the rows of a return table: the returns of an asset over the four windows
ReturnRows ==
    {<<Num(5), Num(5), NaN, Num(1)>>,
     <<Num(-2), Num(4), NaN, Num(0)>>,
     <<Num(5), NaN, Num(3), Num(-2)>>,
     <<Num(0), Num(-2), NaN, NaN>>}

ReturnFrame(rows) ==
    [index   |-> SubSeq(ReturnAssets, 1, Len(rows)),
     columns |-> ReturnColumns,
     cell    |-> [k \in 1..Len(rows) |->
                    [c \in Range(ReturnColumns) |->
                        rows[k][CHOOSE j \in 1..Len(ReturnColumns) : ReturnColumns[j] = c]]]]

\* return tables of up to MaxAssets assets, no two with the same returns
InitRender ==
    /\ pc = "ready"
    /\ \E n \in 1..MaxAssets : \E rows \in [1..n -> ReturnRows] :
          /\ \A i, j \in 1..n : rows[i] = rows[j] => i = j
          /\ asset_returns = ReturnFrame(rows)
    /\ \E keys \in SUBSET Range(SubSeq(ReturnAssets, 1, MaxAssets)) :
          \E m \in [keys -> Range(SectorNames)] :
             /\ \A a \in keys : m[a] \in SectorChoices(a)
             /\ sector_mapping = m
    /\ returns0 = asset_returns
    /\ mapping0 = sector_mapping
    /\ sectors = None
    /\ figure = None
    /\ ret = None
    /\ prev_ret = None
    /\ asset_price_df = None
    /\ price_df0 = None
    /\ col_name = "none"

CallHotBallOfMoney ==
    /\ pc = "ready"
    /\ \E best \in sort_outcomes(asset_returns, sector_mapping) :
         \E sector_list \in Orders(MappingValues(sector_mapping)) :
            LET r == hot_ball_of_money(asset_returns, sector_mapping, sector_list, best)
            IN  /\ ret' = [status |-> r.status]
                /\ figure' = r.figure
                /\ pc' = IF r.status = "ok" THEN "returned" ELSE "raised"
                /\ sectors' = sector_list
    /\ asset_returns' = caller_frame_after(asset_returns, sector_mapping)
    /\ UNCHANGED <<sector_mapping, returns0, mapping0, asset_price_df, price_df0,
                   col_name, prev_ret>>

NextRender == CallHotBallOfMoney

SpecRender == InitRender /\ [][NextRender]_vars

-----------------------------------------------------------------------------
(* Properties of compute_cumulative_returns (checked under SpecReturn) *)

\* the rows of column a of df holding a price
KnownRows(df, a) == {i \in 1..NRows(df) : ~IsNaN(df.cell[i][a])}

\* the price of a in the last row, or the most recent one before it
LastKnownPrice(df, a) == df.cell[Max(KnownRows(df, a))][a]

NonZeroPrices(df, a) == \A i \in KnownRows(df, a) : ~IsZero(df.cell[i][a])

\* the returned percentage of asset a
Returned(a) ==
    LET k == CHOOSE k \in 1..Len(ret.index) : ret.index[k] = a
    IN  ret.cell[k][ret.columns[1]]

\* 100 * (last / first - 1)
TotalReturn(first, last) == FMul(FSub(FDiv(last, first), Num(1)), Num(100))

ColumnIs(df, a, prices) ==
    /\ NRows(df) = Len(prices)
    /\ \A i \in 1..Len(prices) : df.cell[i][a] = prices[i]

IsGap(df, i, a) == IsNaN(df.cell[i][a]) /\ \E j \in KnownRows(df, a) : j < i

HasGap(df, a) == \E i \in 1..NRows(df) : IsGap(df, i, a)

\* df with every gap replaced by the most recent preceding known price
GapsReplaced(df) ==
    [df EXCEPT !.cell = [i \in 1..NRows(df) |->
        [a \in Range(df.columns) |->
            IF IsGap(df, i, a)
            THEN df.cell[Max({j \in KnownRows(df, a) : j < i})][a]
            ELSE df.cell[i][a]]]]

\* C2 (as amended): the result equals the result on the slice with every gap
\* replaced by the preceding known price; for an asset with such a gap and
\* only non-zero prices it is not undefined; [100, missing, 121] yields 21.
C2_ForwardFill ==
    pc = "returned" =>
        /\ ret = compute_cumulative_returns(GapsReplaced(price_df0), col_name)
        /\ \A a \in Range(AssetColumns) :
              (HasGap(price_df0, a) /\ NonZeroPrices(price_df0, a)) => ~IsNaN(Returned(a))
        /\ \A a \in Range(AssetColumns) :
              ColumnIs(price_df0, a, <<Num(100), NaN, Num(121)>>) => Returned(a) = Num(21)

\* C2 as stated: with a gap after a known price the result is never
\* undefined.
C2_GapNeverUndefined ==
    pc = "returned" =>
        \A a \in Range(AssetColumns) : HasGap(price_df0, a) => ~IsNaN(Returned(a))

C2_Witness ==
    /\ pc = "returned"
    /\ ColumnIs(price_df0, "X", <<Num(100), NaN, Num(121)>>)
    /\ Returned("X") = Num(21)

\* C9 (as amended): a slice of exactly one row raises no error and yields
\* the missing value for every asset; a slice without rows raises
\* IndexError.
C9_OneRowSlice ==
    pc # "ready" =>
        /\ NRows(price_df0) = 1 =>
              (pc = "returned" /\ \A a \in Range(AssetColumns) : IsNaN(Returned(a)))
        /\ NRows(price_df0) = 0 => (pc = "raised" /\ ret.status = "IndexError")

\* C9 as stated: a slice of fewer than two rows raises no error and yields
\* the missing value for every asset.
C9_ShortSliceNoError ==
    (pc # "ready" /\ NRows(price_df0) < 2) =>
        (pc = "returned" /\ \A a \in Range(AssetColumns) : IsNaN(Returned(a)))

C9_Witness ==
    /\ pc = "returned"
    /\ NRows(price_df0) = 1
    /\ price_df0.cell[1]["X"] = Num(100)
    /\ IsNaN(Returned("X"))

-----------------------------------------------------------------------------
(* Properties of returns_df (checked under SpecAgg) *)

\* the last day of the month before the month of t
EndOfMonthBefore(t) ==
    IF t.m = 1 THEN Day(t.y - 1, 12, 31)
    ELSE IF t.m = 3
         THEN Day(t.y, 2, IF t.y % 400 = 0 \/ (t.y % 4 = 0 /\ t.y % 100 # 0) THEN 29 ELSE 28)
    ELSE IF t.m \in {5, 7, 10, 12} THEN Day(t.y, t.m - 1, 30)
    ELSE Day(t.y, t.m - 1, 31)

\* t moved back by k calendar days, a month boundary at a time
RECURSIVE DaysBack(_, _)
DaysBack(t, k) ==
    IF k < t.d THEN Day(t.y, t.m, t.d - k)
    ELSE DaysBack(EndOfMonthBefore(t), k - t.d)

Contains(s, sub) ==
    \E i \in 1..(Len(s) - Len(sub) + 1) : SubSeq(s, i, i + Len(sub) - 1) = sub

AsOf == price_df0.index[NRows(price_df0)]

Called == pc \in {"called1", "called2"}

\* C3: the four columns are labelled "<window> Return S - D", D the date of
\* the last row and S the day 7, 30, 90 and 180 calendar days before it; for
\* D = 2024-03-01 the 7-day label names 2024-02-23 and 2024-03-01.
C3_WindowLabels ==
    Called =>
        /\ ret.columns =
              << "7-day Return "   \o strftime(DaysBack(AsOf, 7))   \o " - " \o strftime(AsOf),
                 "1-month Return " \o strftime(DaysBack(AsOf, 30))  \o " - " \o strftime(AsOf),
                 "3-month Return " \o strftime(DaysBack(AsOf, 90))  \o " - " \o strftime(AsOf),
                 "6-month Return " \o strftime(DaysBack(AsOf, 180)) \o " - " \o strftime(AsOf) >>
        /\ AsOf = Day(2024, 3, 1) =>
              /\ ret.columns[1] = "7-day Return 2024-02-23 - 2024-03-01"
              /\ Contains(ret.columns[1], "2024-02-23")
              /\ Contains(ret.columns[1], "2024-03-01")

C3_Witness ==
    /\ pc = "called1"
    /\ AsOf = Day(2024, 3, 1)
    /\ ret.columns[1] = "7-day Return 2024-02-23 - 2024-03-01"
    /\ ret.columns[4] = "6-month Return 2023-09-03 - 2024-03-01"

\* C4: on a table of at least one row returns_df completes and returns
\* exactly four columns, one per look-back window.
C4_FourColumns ==
    (pc # "start" /\ NRows(price_df0) >= 1) =>
        /\ ret.status = "ok"
        /\ Len(ret.columns) = 4
        /\ Cardinality(Range(ret.columns)) = 4
        /\ \A j \in 1..4 :
              SubSeq(ret.columns[j], 1, Len(WindowNames[j]) + 8) = WindowNames[j] \o " Return "
        /\ \A k \in 1..Len(ret.index) : DOMAIN ret.cell[k] = Range(ret.columns)

C4_Witness ==
    /\ pc = "called1"
    /\ NRows(price_df0) = 1
    /\ ret.status = "ok"
    /\ Len(ret.columns) = 4

-----------------------------------------------------------------------------
(* Properties of hot_ball_of_money (checked under SpecRender) *)

\* the assets of the return table handed in
TableAssets == Range(returns0.index)

\* C5: when an asset of the return table has no entry in the sector mapping
\* the call fails with KeyError; nothing is drawn or saved.
C5_UnmappedAssetRaises ==
    (pc # "ready" /\ \E a \in TableAssets : a \notin DOMAIN mapping0) =>
        (pc = "raised" /\ ret.status = "KeyError" /\ figure = None)

C5_Witness ==
    /\ pc = "raised"
    /\ ret.status = "KeyError"
    /\ \E a \in TableAssets : a \notin DOMAIN mapping0
    /\ \E a \in TableAssets : a \in DOMAIN mapping0

Gold == "#D1B000"

\* C6: in every chart of sector averages exactly one bar is gold, it is a
\* bar of the highest average, and every other bar is green if its average
\* is > 0 and red otherwise.
C6_BestIsHighest ==
    pc = "returned" =>
        \A j \in 1..Len(figure.bottom) :
            LET bars == figure.bottom[j].bars
                gold == {r \in 1..Len(bars) : bars[r].color = Gold}
            IN  /\ Cardinality(gold) = 1
                /\ \A g \in gold : \A r \in 1..Len(bars) :
                      ~IsNaN(bars[r].height) =>
                          (~IsNaN(bars[g].height) /\ ~FLess(bars[g].height, bars[r].height))
                /\ \A r \in (1..Len(bars)) \ gold :
                      bars[r].color = IF bars[r].height.n > 0 /\ bars[r].height.d > 0
                                      THEN "g" ELSE "r"

\* C7: the return table and the sector mapping are after the call what they
\* were before it.
C7_ArgumentsUnchanged ==
    pc # "ready" => (asset_returns = returns0 /\ sector_mapping = mapping0)

\* the sum of the numerators of whole-number cells ks of column c
RECURSIVE SumOf(_, _)
SumOf(ks, c) ==
    IF ks = {} THEN 0
    ELSE LET k == CHOOSE k \in ks : TRUE
         IN  returns0.cell[k][c].n + SumOf(ks \ {k}, c)

\* the rows of sector s whose return in column c is defined
DefinedIn(s, c) ==
    {k \in 1..NRows(returns0) :
        mapping0[returns0.index[k]] = s /\ ~IsNaN(returns0.cell[k][c])}

AxisLabel(s) == IF s = "C D" THEN "C\nD" ELSE s

\* C10: for every sector and window the bar of the sector is the mean of the
\* returns of the assets of the sector that are defined in the window, each
\* window by itself, and is undefined only when none is defined.
C10_SectorMean ==
    pc = "returned" =>
        \A j \in 1..Len(ReturnColumns) :
            \A s \in {mapping0[a] : a \in TableAssets} :
                LET bars == figure.bottom[j].bars
                    mine == {r \in 1..Len(bars) : bars[r].label = AxisLabel(s)}
                    D == DefinedIn(s, ReturnColumns[j])
                IN  /\ Cardinality(mine) = 1
                    /\ \A r \in mine :
                          bars[r].height =
                              IF D = {} THEN NaN
                              ELSE Frac(SumOf(D, ReturnColumns[j]), Cardinality(D))

C10_Witness ==
    /\ pc = "returned"
    /\ \E j \in 1..Len(ReturnColumns) : \E k1, k2 \in 1..NRows(returns0) :
          /\ mapping0[returns0.index[k1]] = mapping0[returns0.index[k2]]
          /\ IsNaN(returns0.cell[k1][ReturnColumns[j]])
          /\ ~IsNaN(returns0.cell[k2][ReturnColumns[j]])
          /\ \E i \in 1..Len(ReturnColumns) : ~IsNaN(returns0.cell[k1][ReturnColumns[i]])
          /\ \E r \in 1..Len(figure.bottom[j].bars) :
                /\ figure.bottom[j].bars[r].label = AxisLabel(mapping0[returns0.index[k1]])
                /\ figure.bottom[j].bars[r].height = returns0.cell[k2][ReturnColumns[j]]

=============================================================================
